---- MODULE Spec2Model ----
(***************************************************************************)
(* DocumentStorageService (nexcode_server/app/services/                    *)
(* document_storage_service.py): the save queue and its single background  *)
(* worker, the save policy, the version chain (flush, manual snapshot,     *)
(* restore) and the operation log.                                         *)
(*                                                                         *)
(* Each store transaction (one `async for db in get_db()` body, from its   *)
(* first select to its commit) is one atomic step of the specification     *)
(* Spec; a store call may fail (raise), and the handlers' `except          *)
(* Exception` clauses then leave the store as it was.                      *)
(***************************************************************************)
EXTENDS Integers, Sequences, FiniteSets, TLC

VARIABLES
    docs,             \* Document rows: document_id -> [content, version, last_editor_id]
    versions,         \* DocumentVersion rows, in insertion order
    operations,       \* DocumentOperation rows, in insertion order
    save_queue,       \* self.save_queue (asyncio.Queue), FIFO
    save_task,        \* self.save_task: "none" | "running" | "done"
    initialized,      \* self._initialized
    document_states,  \* self.document_states: document_id -> [last_save, last_content]
    worker_pc,        \* position of _background_save_worker: "get" | "operation"
    current,          \* the request the worker holds between its two store calls
    shutdown_pc,      \* position of a shutdown() caller: "idle" | "waiting" | "returned"
    clock,            \* datetime.utcnow(), in seconds
    submitted,        \* number of save_content calls made so far
    calls,            \* number of restore / snapshot calls made so far
    listed,           \* the last result of get_document_versions
    baseline,         \* the version each document had at the start
    next_id,          \* the id the store gives the next DocumentOperation row
    cleanup,          \* a cleanup_old_operations call between its queries and its commit
    worker_tasks,     \* number of _background_save_worker tasks created and not finished
    reads,            \* what a flush and a restore have read from the store and not yet committed
    last_submitted,   \* the content of the last save_content call for each document
    event             \* what the last step did and returned (the handlers' log line / return value)

vars == <<docs, versions, operations, save_queue, save_task, initialized,
          document_states, worker_pc, current, shutdown_pc, clock, submitted,
          calls, listed, baseline, next_id, cleanup, worker_tasks, reads,
          last_submitted, event>>

-----------------------------------------------------------------------------
\* Bounds of the model.
MaxSubmits == 2      \* save_content calls per run
MaxCalls == 2        \* restore_version / create_version_snapshot calls per run
MaxClock == 10       \* the clock stops advancing here
InitialVersion == 3  \* the version of document 1 at the start
MaxFlushes == 11     \* length of the flush chain of SpecChain
MaxKeep == 1         \* largest keep_count passed to cleanup_old_operations

\* Program constants.
save_interval == 10          \* self.save_interval, seconds
min_content_change == 10     \* self.min_content_change, characters
DefaultVersionLimit == 10    \* get_document_versions(limit=10)

sentence_endings == {".", "!", "?", "\n"}
Whitespace == {" ", "\n", "\t"}

\* Contents, as sequences of characters.
abc == <<"a", "b", "c">>
abcd == abc \o <<"d">>
abcdDot == abcd \o <<".">>
Contents == {abc, abcd, abcdDot}

DocIds == {1, 2}
KeepCounts == 0..MaxKeep
Users == {1}
NoUser == 0

\* Operation payloads (Optional[Dict]): None, the empty dict, or a dict with keys.
\* type "missing" stands for a dict without the key "type".
NoOperation == [kind |-> "None", size |-> 0, type |-> "missing", position |-> 0, content |-> <<>>]
EmptyOperation == [kind |-> "dict", size |-> 0, type |-> "missing", position |-> 0, content |-> <<>>]
InsertOperation == [kind |-> "dict", size |-> 3, type |-> "insert", position |-> 3, content |-> <<"d">>]
Payloads == {NoOperation, EmptyOperation, InsertOperation}

\* Payloads with keys: marked "delete", without the key "type", and with a
\* type that is neither "insert" nor "delete".
DeleteOperation == [kind |-> "dict", size |-> 3, type |-> "delete", position |-> 1, content |-> <<"b", "c">>]
UntypedOperation == [kind |-> "dict", size |-> 2, type |-> "missing", position |-> 3, content |-> <<"d">>]
ReplaceOperation == [kind |-> "dict", size |-> 3, type |-> "replace", position |-> 2, content |-> <<"c">>]
OperationPayloads == {InsertOperation, DeleteOperation, UntypedOperation, ReplaceOperation}

\* Mutant: the payload is tested with `is not None`.
Truthy_NotNone(operation) == operation.kind = "dict"

\* Python truthiness of the payload: None and {} are falsy.
Truthy(operation) == operation.kind = "dict" /\ operation.size > 0

\* A queue item; seq is its position in the order of the put calls.
Request(document_id, user_id, content, operation, seq) ==
    [stop |-> FALSE, document_id |-> document_id, user_id |-> user_id,
     content |-> content, operation |-> operation, seq |-> seq]

\* The stop signal (None) put on the queue by shutdown().
StopSignal ==
    [stop |-> TRUE, document_id |-> 0, user_id |-> NoUser,
     content |-> <<>>, operation |-> NoOperation, seq |-> 0]

\* A transaction that has read nothing yet, and the state in which neither
\* the worker's flush nor a restore_version call is between its reads and its
\* commit.
NoRead == [pc |-> "idle"]
NoReads == [flush |-> NoRead, restore |-> NoRead]

\* No cleanup_old_operations call is under way.
NoCleanup == [pc |-> "idle", document_id |-> 0, keep_count |-> 0, ids |-> {}, seen |-> 0]

\* What a step did: the handler, its arguments, the trigger the policy logged
\* and the outcome the handler logged or returned.  For cleanup_old_operations
\* the third field carries keep_count.
Event(op, document_id, version_number, trigger, outcome) ==
    [op |-> op, document_id |-> document_id, version_number |-> version_number,
     trigger |-> trigger, outcome |-> outcome]

NoEvent == Event("init", 0, 0, "", "")

-----------------------------------------------------------------------------
\* Text helpers.

\* Mutant: the signed difference.
Abs_Signed(n) == n

Abs(n) == IF n < 0 THEN -n ELSE n

\* str.rstrip(): drop trailing whitespace.
RECURSIVE rstrip(_)
rstrip(s) ==
    IF s = <<>> THEN s
    ELSE IF s[Len(s)] \in Whitespace THEN rstrip(SubSeq(s, 1, Len(s) - 1))
    ELSE s

\* str.endswith(ending) for a one-character ending.
endswith(s, ending) == s # <<>> /\ s[Len(s)] = ending

-----------------------------------------------------------------------------
\* The save policy.

\* Mutant: any appended text counts as a completed sentence.
_is_sentence_complete_AnySuffix(old_content, new_content) ==
    Len(new_content) > Len(old_content)

_is_sentence_complete(old_content, new_content) ==
    IF Len(new_content) <= Len(old_content) THEN FALSE
    ELSE LET added_content == SubSeq(new_content, Len(old_content) + 1, Len(new_content))
         IN  \E ending \in sentence_endings : endswith(rstrip(added_content), ending)

\* Mutant: a document without a tracker entry is not saved.
SaveTrigger_NoFirstSave(states, document_id, content, now) ==
    IF document_id \notin DOMAIN states THEN "none"
    ELSE LET state == states[document_id]
         IN  IF now - state.last_save >= save_interval THEN "interval"
             ELSE IF state.last_content # content
                  THEN IF Abs(Len(content) - Len(state.last_content)) >= min_content_change
                       THEN "change"
                       ELSE IF _is_sentence_complete(state.last_content, content)
                            THEN "sentence"
                            ELSE "none"
                  ELSE "none"

\* The branch of _should_save_document that decides: "new" (no tracker entry),
\* "interval", "change", "sentence" (each logged by the code), or "none".
SaveTrigger(states, document_id, content, now) ==
    IF document_id \notin DOMAIN states THEN "new"
    ELSE LET state == states[document_id]
         IN  IF now - state.last_save >= save_interval THEN "interval"
             ELSE IF state.last_content # content
                  THEN IF Abs(Len(content) - Len(state.last_content)) >= min_content_change
                       THEN "change"
                       ELSE IF _is_sentence_complete(state.last_content, content)
                            THEN "sentence"
                            ELSE "none"
                  ELSE "none"

_should_save_document(states, document_id, content, now) ==
    SaveTrigger(states, document_id, content, now) # "none"

\* Mutant: the entry gets the time of the save but not its content.
_update_document_state_TimeOnly(states, document_id, content, now) ==
    [d \in DOMAIN states \cup {document_id} |->
        IF d # document_id THEN states[d]
        ELSE [last_save |-> now,
              last_content |-> IF d \in DOMAIN states THEN states[d].last_content
                               ELSE <<>>]]

_update_document_state(states, document_id, content, now) ==
    [d \in DOMAIN states \cup {document_id} |->
        IF d = document_id THEN [last_save |-> now, last_content |-> content]
        ELSE states[d]]

-----------------------------------------------------------------------------
\* The version chain.

\* Mutant: the archived row is tagged with the number the document moves to.
VersionRow_NewNumber(document_id, document) ==
    [document_id |-> document_id, version_number |-> document.version + 1,
     content |-> document.content]

\* The DocumentVersion row written for a document row: its current version
\* number and its current content.
VersionRow(document_id, document) ==
    [document_id |-> document_id, version_number |-> document.version,
     content |-> document.content]

\* Mutant: the content write leaves the version counter where it was.
WrittenDocument_SameVersion(document, user_id, content) ==
    [content |-> content, version |-> document.version, last_editor_id |-> user_id]

\* The document row after a content write: content replaced, version advanced,
\* editor recorded.
WrittenDocument(document, user_id, content) ==
    [content |-> content, version |-> document.version + 1, last_editor_id |-> user_id]

\* Mutant: no comparison of the stored content with the incoming content.
SaveOutcome_NoDuplicateCheck(store, document_id, content, fails) ==
    IF fails THEN "failed"
    ELSE IF document_id \notin DOMAIN store THEN "missing"
    ELSE "saved"

\* Outcome of the transaction of _save_document_content.
SaveOutcome(store, document_id, content, fails) ==
    IF fails THEN "failed"
    ELSE IF document_id \notin DOMAIN store THEN "missing"
    ELSE IF store[document_id].content = content THEN "unchanged"
    ELSE "saved"

\* Rows selected by restore_version: document_id and version_number match.
MatchingVersions(rows, document_id, version_number) ==
    {i \in 1..Len(rows) : /\ rows[i].document_id = document_id
                          /\ rows[i].version_number = version_number}

\* Outcome of the transaction of restore_version.  scalar_one_or_none() raises
\* MultipleResultsFound when more than one row matches ("multiple"); the
\* handler returns True only for "restored".
RestoreOutcome(store, rows, document_id, version_number, fails) ==
    LET found == MatchingVersions(rows, document_id, version_number)
    IN  IF fails THEN "failed"
        ELSE IF found = {} THEN "no_version"
        ELSE IF Cardinality(found) > 1 THEN "multiple"
        ELSE IF document_id \notin DOMAIN store THEN "missing"
        ELSE "restored"

\* Outcome of the transaction of create_version_snapshot.
SnapshotOutcome(store, document_id, fails) ==
    IF fails THEN "failed"
    ELSE IF document_id \notin DOMAIN store THEN "missing"
    ELSE "created"

\* Rows of one document, in insertion order.
RowsOf(rows, document_id) ==
    SelectSeq(rows, LAMBDA row : row.document_id = document_id)

\* ORDER BY version_number DESC.  Rows that tie keep their insertion order.
RECURSIVE SortDesc(_)
SortDesc(rows) ==
    IF rows = <<>> THEN <<>>
    ELSE LET top == CHOOSE i \in 1..Len(rows) :
                        /\ \A j \in 1..Len(rows) : rows[j].version_number <= rows[i].version_number
                        /\ \A j \in 1..(i - 1) : rows[j].version_number < rows[i].version_number
             rest == [k \in 1..(Len(rows) - 1) |-> IF k < top THEN rows[k] ELSE rows[k + 1]]
         IN  <<rows[top]>> \o SortDesc(rest)

\* Mutant: the limit keeps the tail of the listing instead of its head.
Limit_Tail(rows, n) ==
    IF Len(rows) <= n THEN rows ELSE SubSeq(rows, Len(rows) - n + 1, Len(rows))

\* LIMIT n.
Limit(rows, n) == IF Len(rows) <= n THEN rows ELSE SubSeq(rows, 1, n)

get_document_versions_result(rows, document_id, limit) ==
    Limit(SortDesc(RowsOf(rows, document_id)), limit)

-----------------------------------------------------------------------------
\* The operation log.

\* The DocumentOperation row built by _save_operation.
OperationRow(document_id, user_id, operation) ==
    [document_id |-> document_id, user_id |-> user_id,
     operation_type |-> IF operation.type = "insert" THEN "INSERT" ELSE "DELETE",
     start_position |-> operation.position,
     end_position |-> operation.position + Len(operation.content),
     content |-> operation.content]

\* The row as the store holds it: with the primary key and the created_at the
\* store gave it at insertion.
Inserted(row, id, now) ==
    [id |-> id, created_at |-> now, document_id |-> row.document_id,
     user_id |-> row.user_id, operation_type |-> row.operation_type,
     start_position |-> row.start_position, end_position |-> row.end_position,
     content |-> row.content]

-----------------------------------------------------------------------------
\* Initial state: document 1 is at version InitialVersion with content "abc";
\* document 2 is not in the store.  No worker has been started.

Init ==
    /\ docs = [d \in {1} |->
                 [content |-> abc, version |-> InitialVersion, last_editor_id |-> NoUser]]
    /\ baseline = [d \in {1} |-> InitialVersion]
    /\ versions = <<>>
    /\ operations = <<>>
    /\ save_queue = <<>>
    /\ save_task = "none"
    /\ initialized = FALSE
    /\ document_states = <<>>
    /\ worker_pc = "get"
    /\ current = StopSignal
    /\ shutdown_pc = "idle"
    /\ clock = 0
    /\ submitted = 0
    /\ calls = 0
    /\ listed = <<>>
    /\ next_id = 1
    /\ cleanup = NoCleanup
    /\ worker_tasks = 0
    /\ reads = NoReads
    /\ last_submitted = <<>>
    /\ event = NoEvent

-----------------------------------------------------------------------------
\* save_content: _ensure_initialized, then put the request on the queue.

\* _start_background_save: a task is created unless one is running.
StartedTask(task) == IF task = "none" \/ task = "done" THEN "running" ELSE task

\* Mutant: every call creates a worker task.
CreatesTask_Unguarded(init, task) == TRUE

\* _ensure_initialized creates a task when the service is not initialized and
\* no task is running.
CreatesTask(init, task) == ~init /\ (task = "none" \/ task = "done")

\* Mutant: the item is put at the head of the queue.
Put_AtHead(queue, item) == <<item>> \o queue

\* asyncio.Queue.put on an unbounded queue: the item goes to the tail, without
\* suspending the caller.
Put(queue, item) == Append(queue, item)

save_content(document_id, user_id, content, operation) ==
    /\ submitted < MaxSubmits
    /\ submitted' = submitted + 1
    /\ save_task' = IF initialized THEN save_task ELSE StartedTask(save_task)
    /\ worker_tasks' = IF CreatesTask(initialized, save_task)
                       THEN worker_tasks + 1 ELSE worker_tasks
    /\ initialized' = TRUE
    /\ save_queue' = Put(save_queue,
                         Request(document_id, user_id, content, operation, submitted + 1))
    /\ last_submitted' = [d \in DOMAIN last_submitted \cup {document_id} |->
                            IF d = document_id THEN content ELSE last_submitted[d]]
    /\ event' = Event("save_content", document_id, 0, "", "queued")
    /\ UNCHANGED <<docs, versions, operations, document_states, worker_pc, current,
                   shutdown_pc, clock, calls, listed, baseline, reads, next_id, cleanup>>

-----------------------------------------------------------------------------
\* _background_save_worker.

\* The store after the transaction of _save_document_content.
SavedDocs(store, document_id, user_id, content, outcome) ==
    IF outcome = "saved"
    THEN [store EXCEPT ![document_id] = WrittenDocument(store[document_id], user_id, content)]
    ELSE store

SavedVersions(store, rows, document_id, outcome) ==
    IF outcome = "saved"
    THEN Append(rows, VersionRow(document_id, store[document_id]))
    ELSE rows

\* The worker takes the stop signal and leaves its loop.
WorkerStop ==
    /\ save_task = "running"
    /\ worker_pc = "get"
    /\ save_queue # <<>>
    /\ Head(save_queue).stop
    /\ save_queue' = Tail(save_queue)
    /\ save_task' = "done"
    /\ worker_tasks' = worker_tasks - 1
    /\ event' = Event("stop", 0, 0, "", "stopped")
    /\ UNCHANGED <<docs, versions, operations, initialized, document_states, worker_pc,
                   current, shutdown_pc, clock, submitted, calls, listed, baseline, reads, last_submitted,
                   next_id, cleanup>>

\* Mutant: a failed flush ends the worker task.
TaskAfterFlush_Propagates(task, outcome) == IF outcome = "failed" THEN "done" ELSE task

\* The worker task after _save_document_content: the function catches its
\* exceptions and returns, so the loop goes on whatever the outcome.
TaskAfterFlush(task, outcome) == task

\* The worker takes a request, asks the policy and, when it says save, runs
\* _save_document_content and then _update_document_state.
WorkerSave(fails) ==
    /\ save_task = "running"
    /\ worker_pc = "get"
    /\ save_queue # <<>>
    /\ ~Head(save_queue).stop
    /\ LET request == Head(save_queue)
           document_id == request.document_id
           should_save == _should_save_document(document_states, document_id,
                                                request.content, clock)
           outcome == IF should_save
                      THEN SaveOutcome(docs, document_id, request.content, fails)
                      ELSE "skipped"
       IN  /\ should_save \/ ~fails
           /\ save_queue' = Tail(save_queue)
           /\ current' = request
           /\ worker_pc' = "operation"
           /\ save_task' = TaskAfterFlush(save_task, outcome)
           /\ docs' = SavedDocs(docs, document_id, request.user_id, request.content, outcome)
           /\ versions' = SavedVersions(docs, versions, document_id, outcome)
           /\ document_states' =
                 IF should_save
                 THEN _update_document_state(document_states, document_id,
                                             request.content, clock)
                 ELSE document_states
           /\ event' = Event("save", document_id, 0,
                             SaveTrigger(document_states, document_id,
                                         request.content, clock), outcome)
    /\ UNCHANGED <<operations, initialized, shutdown_pc, clock, submitted,
                   calls, listed, baseline, reads, last_submitted, next_id, cleanup, worker_tasks>>

\* The rows after _save_operation.
SavedOperations(rows, request, fails, id, now) ==
    IF Truthy(request.operation) /\ ~fails
    THEN Append(rows, Inserted(OperationRow(request.document_id, request.user_id,
                                            request.operation), id, now))
    ELSE rows

\* The worker saves the request's operation, if it has one, and marks the
\* request done.
WorkerOperation(fails) ==
    /\ save_task = "running"
    /\ worker_pc = "operation"
    /\ Truthy(current.operation) \/ ~fails
    /\ operations' = SavedOperations(operations, current, fails, next_id, clock)
    /\ next_id' = next_id + Len(operations') - Len(operations)
    /\ worker_pc' = "get"
    /\ current' = StopSignal
    /\ event' = Event("operation", current.document_id, 0, "",
                      IF ~Truthy(current.operation) THEN "none"
                      ELSE IF fails THEN "failed" ELSE "appended")
    /\ UNCHANGED <<docs, versions, save_queue, save_task, initialized, document_states,
                   shutdown_pc, clock, submitted, calls, listed, baseline, reads, last_submitted,
                   cleanup, worker_tasks>>

-----------------------------------------------------------------------------
\* create_version_snapshot.

\* Mutant: the snapshot advances the version counter of the document.
create_version_snapshot_Advances(document_id, user_id, fails) ==
    /\ calls < MaxCalls
    /\ calls' = calls + 1
    /\ LET outcome == SnapshotOutcome(docs, document_id, fails)
       IN  /\ versions' = IF outcome = "created"
                          THEN Append(versions, VersionRow(document_id, docs[document_id]))
                          ELSE versions
           /\ docs' = IF outcome = "created"
                      THEN [docs EXCEPT ![document_id].version = @ + 1]
                      ELSE docs
           /\ event' = Event("snapshot", document_id, 0, "", outcome)
    /\ UNCHANGED <<operations, save_queue, save_task, initialized, document_states,
                   worker_pc, current, shutdown_pc, clock, submitted, listed, baseline, reads, last_submitted,
                   next_id, cleanup, worker_tasks>>

create_version_snapshot(document_id, user_id, fails) ==
    /\ calls < MaxCalls
    /\ calls' = calls + 1
    /\ LET outcome == SnapshotOutcome(docs, document_id, fails)
       IN  /\ versions' = IF outcome = "created"
                          THEN Append(versions, VersionRow(document_id, docs[document_id]))
                          ELSE versions
           /\ event' = Event("snapshot", document_id, 0, "", outcome)
    /\ UNCHANGED <<docs, operations, save_queue, save_task, initialized, document_states,
                   worker_pc, current, shutdown_pc, clock, submitted, listed, baseline, reads, last_submitted,
                   next_id, cleanup, worker_tasks>>

-----------------------------------------------------------------------------
\* restore_version.

\* Mutant: the newest version row of the document instead of the one numbered
\* version_number.
SelectedVersion_Newest(rows, document_id, version_number) ==
    LET mine == RowsOf(rows, document_id) IN mine[Len(mine)]

\* The version row restore_version selected.
SelectedVersion(rows, document_id, version_number) ==
    rows[CHOOSE i \in MatchingVersions(rows, document_id, version_number) : TRUE]

\* Mutant: the counter is set to the number of the restored version.
RestoredDocument_TargetVersion(document, version, user_id) ==
    [content |-> version.content, version |-> version.version_number,
     last_editor_id |-> user_id]

\* The document row after a restore: content of the selected version, version
\* advanced, editor recorded.
RestoredDocument(document, version, user_id) ==
    [content |-> version.content, version |-> document.version + 1,
     last_editor_id |-> user_id]

restore_version(document_id, version_number, user_id, fails) ==
    /\ calls < MaxCalls
    /\ calls' = calls + 1
    /\ LET outcome == RestoreOutcome(docs, versions, document_id, version_number, fails)
       IN  /\ versions' = IF outcome = "restored"
                          THEN Append(versions, VersionRow(document_id, docs[document_id]))
                          ELSE versions
           /\ docs' = IF outcome = "restored"
                      THEN [docs EXCEPT ![document_id] =
                              RestoredDocument(docs[document_id],
                                  SelectedVersion(versions, document_id, version_number),
                                  user_id)]
                      ELSE docs
           /\ event' = Event("restore", document_id, version_number, "", outcome)
    /\ UNCHANGED <<operations, save_queue, save_task, initialized, document_states,
                   worker_pc, current, shutdown_pc, clock, submitted, listed, baseline, reads, last_submitted,
                   next_id, cleanup, worker_tasks>>

-----------------------------------------------------------------------------
\* The flush and the restore with their store calls as separate steps: each
\* selects the document row in its own session, and commits later what it
\* computed from the row it selected.  Neither select locks the row.

\* The request at the head of the queue will be flushed with a write: the
\* policy approves it, the document exists and its content differs.
FlushWrites ==
    /\ save_queue # <<>>
    /\ ~Head(save_queue).stop
    /\ _should_save_document(document_states, Head(save_queue).document_id,
                             Head(save_queue).content, clock)
    /\ SaveOutcome(docs, Head(save_queue).document_id,
                   Head(save_queue).content, FALSE) = "saved"

\* The worker takes a request the policy approves and _save_document_content
\* selects the document row.
flush_read ==
    /\ save_task = "running"
    /\ worker_pc = "get"
    /\ FlushWrites
    /\ LET request == Head(save_queue)
           document_id == request.document_id
           trigger == SaveTrigger(document_states, document_id, request.content, clock)
       IN  /\ save_queue' = Tail(save_queue)
           /\ current' = request
           /\ worker_pc' = "flush"
           /\ reads' = [reads EXCEPT !.flush =
                            [pc |-> "read", seen |-> docs[document_id],
                             trigger |-> trigger]]
           /\ event' = Event("read", document_id, 0, trigger, "flush")
    /\ UNCHANGED <<docs, versions, operations, save_task, initialized, document_states,
                   shutdown_pc, clock, submitted, calls, listed, baseline, next_id,
                   cleanup, worker_tasks, last_submitted>>

\* _save_document_content adds the version row, assigns the document and
\* commits, all from the row it selected; the worker then updates the tracker.
flush_commit(fails) ==
    /\ save_task = "running"
    /\ worker_pc = "flush"
    /\ LET document_id == current.document_id
           seen == reads.flush.seen
       IN  /\ docs' = IF fails THEN docs
                      ELSE [docs EXCEPT ![document_id] =
                              WrittenDocument(seen, current.user_id, current.content)]
           /\ versions' = IF fails THEN versions
                          ELSE Append(versions, VersionRow(document_id, seen))
           /\ document_states' = _update_document_state(document_states, document_id,
                                                        current.content, clock)
           /\ event' = Event("save", document_id, 0, reads.flush.trigger,
                             IF fails THEN "failed" ELSE "saved")
    /\ worker_pc' = "operation"
    /\ reads' = [reads EXCEPT !.flush = NoRead]
    /\ UNCHANGED <<operations, save_queue, save_task, initialized, current, shutdown_pc,
                   clock, submitted, calls, listed, baseline, next_id, cleanup,
                   worker_tasks, last_submitted>>

\* restore_version selects the target version row and the document row.
restore_read(document_id, version_number, user_id, fails) ==
    /\ calls < MaxCalls
    /\ reads.restore = NoRead
    /\ calls' = calls + 1
    /\ LET outcome == RestoreOutcome(docs, versions, document_id, version_number, fails)
       IN  IF outcome = "restored"
           THEN /\ reads' = [reads EXCEPT !.restore =
                                [pc |-> "read", document_id |-> document_id,
                                 version_number |-> version_number, user_id |-> user_id,
                                 seen |-> docs[document_id],
                                 target |-> SelectedVersion(versions, document_id,
                                                            version_number)]]
                /\ event' = Event("read", document_id, version_number, "", "restore")
           ELSE /\ reads' = reads
                /\ event' = Event("restore", document_id, version_number, "", outcome)
    /\ UNCHANGED <<docs, versions, operations, save_queue, save_task, initialized,
                   document_states, worker_pc, current, shutdown_pc, clock, submitted,
                   listed, baseline, next_id, cleanup, worker_tasks, last_submitted>>

\* restore_version adds the version row for the document row it selected,
\* assigns the document from the target row and commits.
restore_commit(fails) ==
    /\ reads.restore # NoRead
    /\ LET call == reads.restore
       IN  /\ versions' = IF fails THEN versions
                          ELSE Append(versions, VersionRow(call.document_id, call.seen))
           /\ docs' = IF fails THEN docs
                      ELSE [docs EXCEPT ![call.document_id] =
                              RestoredDocument(call.seen, call.target, call.user_id)]
           /\ event' = Event("restore", call.document_id, call.version_number, "",
                             IF fails THEN "failed" ELSE "restored")
    /\ reads' = [reads EXCEPT !.restore = NoRead]
    /\ UNCHANGED <<operations, save_queue, save_task, initialized, document_states,
                   worker_pc, current, shutdown_pc, clock, submitted, calls, listed,
                   baseline, next_id, cleanup, worker_tasks, last_submitted>>

-----------------------------------------------------------------------------
\* cleanup_old_operations: a query for the ids of the old rows, then, in the
\* same session, their deletion and the commit.  The worker may append rows
\* between the two.

\* Mutant: the query orders by created_at ascending.
OldIdSets_Ascending(rows, document_id, keep_count) ==
    LET mine == {i \in 1..Len(rows) : rows[i].document_id = document_id}
        old == IF Cardinality(mine) > keep_count THEN Cardinality(mine) - keep_count ELSE 0
    IN  {{rows[i].id : i \in chosen} :
            chosen \in {c \in SUBSET mine :
                           /\ Cardinality(c) = old
                           /\ \A i \in c, j \in mine \ c :
                                  rows[i].created_at >= rows[j].created_at}}

\* The results the id query can have: the ids of the rows of the document
\* past the first keep_count in descending created_at order.  The store
\* orders rows of equal created_at as it likes.
OldIdSets(rows, document_id, keep_count) ==
    LET mine == {i \in 1..Len(rows) : rows[i].document_id = document_id}
        old == IF Cardinality(mine) > keep_count THEN Cardinality(mine) - keep_count ELSE 0
    IN  {{rows[i].id : i \in chosen} :
            chosen \in {c \in SUBSET mine :
                           /\ Cardinality(c) = old
                           /\ \A i \in c, j \in mine \ c :
                                  rows[i].created_at <= rows[j].created_at}}

\* Mutant: the rows to delete are selected again at deletion time.
AfterDeletes_Reselect(rows, call) ==
    LET ids == CHOOSE chosen \in OldIdSets(rows, call.document_id, call.keep_count) : TRUE
    IN  SelectSeq(rows, LAMBDA row : row.id \notin ids)

\* The rows after the deletes: the rows found by id.in_(old_operation_ids)
\* are gone.
AfterDeletes(rows, call) == SelectSeq(rows, LAMBDA row : row.id \notin call.ids)

\* The id query of cleanup_old_operations(document_id, keep_count).
cleanup_old_operations(document_id, keep_count, fails) ==
    /\ calls < MaxCalls
    /\ cleanup.pc = "idle"
    /\ calls' = calls + 1
    /\ IF fails
       THEN /\ cleanup' = NoCleanup
            /\ event' = Event("cleanup", document_id, keep_count, "", "failed")
       ELSE \E ids \in OldIdSets(operations, document_id, keep_count) :
               IF ids = {}
               THEN /\ cleanup' = NoCleanup
                    /\ event' = Event("cleanup", document_id, keep_count, "", "nothing")
               ELSE /\ cleanup' = [pc |-> "delete", document_id |-> document_id,
                                   keep_count |-> keep_count, ids |-> ids,
                                   seen |-> next_id]
                    /\ event' = Event("cleanup", document_id, keep_count, "", "selected")
    /\ UNCHANGED <<docs, versions, operations, save_queue, save_task, initialized,
                   document_states, worker_pc, current, shutdown_pc, clock, submitted,
                   listed, baseline, reads, last_submitted, next_id, worker_tasks>>

\* The deletes and the commit of the call under way.
cleanup_old_operations_commit(fails) ==
    /\ cleanup.pc = "delete"
    /\ operations' = IF fails THEN operations ELSE AfterDeletes(operations, cleanup)
    /\ cleanup' = NoCleanup
    /\ event' = Event("cleanup", cleanup.document_id, cleanup.keep_count, "",
                      IF fails THEN "failed" ELSE "deleted")
    /\ UNCHANGED <<docs, versions, save_queue, save_task, initialized, document_states,
                   worker_pc, current, shutdown_pc, clock, submitted, calls, listed,
                   baseline, reads, last_submitted, next_id, worker_tasks>>

-----------------------------------------------------------------------------
\* shutdown: put the stop signal, then wait for the worker task.

shutdown ==
    /\ shutdown_pc = "idle"
    /\ IF save_task = "running"
       THEN /\ save_queue' = Put(save_queue, [StopSignal EXCEPT !.seq = submitted])
            /\ shutdown_pc' = "waiting"
       ELSE /\ shutdown_pc' = "returned"
            /\ UNCHANGED save_queue
    /\ event' = Event("shutdown", 0, 0, "", "called")
    /\ UNCHANGED <<docs, versions, operations, save_task, initialized, document_states,
                   worker_pc, current, clock, submitted, calls, listed, baseline, reads, last_submitted,
                   next_id, cleanup, worker_tasks>>

\* Mutant: shutdown() returns without awaiting the worker task.
shutdown_return_NoAwait ==
    /\ shutdown_pc = "waiting"
    /\ shutdown_pc' = "returned"
    /\ event' = Event("shutdown", 0, 0, "", "returned")
    /\ UNCHANGED <<docs, versions, operations, save_queue, save_task, initialized,
                   document_states, worker_pc, current, clock, submitted, calls, listed,
                   baseline, reads, last_submitted, next_id, cleanup, worker_tasks>>

shutdown_return ==
    /\ shutdown_pc = "waiting"
    /\ save_task = "done"
    /\ shutdown_pc' = "returned"
    /\ event' = Event("shutdown", 0, 0, "", "returned")
    /\ UNCHANGED <<docs, versions, operations, save_queue, save_task, initialized,
                   document_states, worker_pc, current, clock, submitted, calls, listed, baseline, reads, last_submitted,
                   next_id, cleanup, worker_tasks>>

-----------------------------------------------------------------------------
\* Time passes: the clock advances by one save interval.

Tick ==
    /\ clock + save_interval <= MaxClock
    /\ clock' = clock + save_interval
    /\ event' = Event("tick", 0, 0, "", "")
    /\ UNCHANGED <<docs, versions, operations, save_queue, save_task, initialized,
                   document_states, worker_pc, current, shutdown_pc, submitted, calls, listed, baseline, reads, last_submitted,
                   next_id, cleanup, worker_tasks>>

-----------------------------------------------------------------------------
\* The version numbers restore_version is asked for.
VersionNumbers == InitialVersion..(InitialVersion + 1)

\* The service with its version API: save requests without an operation
\* payload, the worker, manual snapshots and restores.
Next ==
    \/ \E d \in DocIds, u \in Users, c \in Contents : save_content(d, u, c, NoOperation)
    \/ \E fails \in BOOLEAN : WorkerSave(fails)
    \/ \E fails \in BOOLEAN : WorkerOperation(fails)
    \/ \E d \in DocIds, u \in Users, fails \in BOOLEAN : create_version_snapshot(d, u, fails)
    \/ \E d \in DocIds, v \in VersionNumbers, u \in Users, fails \in BOOLEAN :
           restore_version(d, v, u, fails)
    \/ Tick

Spec == Init /\ [][Next]_vars

\* The save pipeline alone: save requests with and without an operation
\* payload, and the worker.
NextWorker ==
    \/ \E d \in DocIds, u \in Users, c \in Contents, o \in Payloads : save_content(d, u, c, o)
    \/ \E fails \in BOOLEAN : WorkerSave(fails)
    \/ \E fails \in BOOLEAN : WorkerOperation(fails)
    \/ Tick

SpecWorker == Init /\ [][NextWorker]_vars

-----------------------------------------------------------------------------
\* A chain of flushes of one document, each followed by get_document_versions
\* with its default limit.  The document starts at version `initial` with no
\* version rows; `submitted` counts the flushes.

InitialVersions == {1, 3}
ChainDoc == CHOOSE d \in DocIds : \A e \in DocIds : d <= e

InitChain ==
    /\ \E initial \in InitialVersions :
          docs = [d \in {ChainDoc} |->
                    [content |-> abc, version |-> initial, last_editor_id |-> NoUser]]
    /\ baseline = [d \in {ChainDoc} |-> docs[d].version]
    /\ versions = <<>>
    /\ operations = <<>>
    /\ save_queue = <<>>
    /\ save_task = "none"
    /\ initialized = FALSE
    /\ document_states = <<>>
    /\ worker_pc = "get"
    /\ current = StopSignal
    /\ shutdown_pc = "idle"
    /\ clock = 0
    /\ submitted = 0
    /\ calls = 0
    /\ listed = <<>>
    /\ next_id = 1
    /\ cleanup = NoCleanup
    /\ worker_tasks = 0
    /\ reads = NoReads
    /\ last_submitted = <<>>
    /\ event = NoEvent

\* _save_document_content(document_id, user_id, content), then
\* get_document_versions(document_id).
ChainFlush(user_id, content, fails) ==
    /\ submitted < MaxFlushes
    /\ LET outcome == SaveOutcome(docs, ChainDoc, content, fails)
       IN  /\ docs' = SavedDocs(docs, ChainDoc, user_id, content, outcome)
           /\ versions' = SavedVersions(docs, versions, ChainDoc, outcome)
           /\ submitted' = IF outcome = "saved" THEN submitted + 1 ELSE submitted
           /\ listed' = get_document_versions_result(
                            SavedVersions(docs, versions, ChainDoc, outcome),
                            ChainDoc, DefaultVersionLimit)
           /\ event' = Event("save", ChainDoc, 0, "", outcome)
    /\ UNCHANGED <<operations, save_queue, save_task, initialized, document_states,
                   worker_pc, current, shutdown_pc, clock, calls, baseline, reads, last_submitted,
                   next_id, cleanup, worker_tasks>>

NextChain == \E u \in Users, c \in Contents, fails \in BOOLEAN : ChainFlush(u, c, fails)

SpecChain == InitChain /\ [][NextChain]_vars

-----------------------------------------------------------------------------
\* The save policy on its own: _should_save_document called on a tracker that
\* is empty or holds one entry, for contents that differ from the tracked one
\* by nothing, by a few characters, by min_content_change - 1 and by
\* min_content_change characters, with and without a sentence ending and
\* trailing whitespace, before, at and after the save interval.

\* n characters that end no sentence.
Pad(n) == [i \in 1..n |-> "x"]

PolicyContents ==
    {<<>>, abc, abcd, abcdDot, abcdDot \o <<" ">>, abcd \o <<"\n">>,
     abcd \o <<"!", "\t">>, abcdDot \o <<"d">>,
     abc \o Pad(min_content_change - 1), abc \o Pad(min_content_change)}

PolicyClocks == {0, save_interval - 1, save_interval, save_interval + 1}

PolicyDoc == CHOOSE d \in DocIds : \A e \in DocIds : d <= e

InitPolicy ==
    /\ docs = [d \in {PolicyDoc} |->
                 [content |-> abc, version |-> InitialVersion, last_editor_id |-> NoUser]]
    /\ baseline = [d \in {PolicyDoc} |-> InitialVersion]
    /\ versions = <<>>
    /\ operations = <<>>
    /\ save_queue = <<>>
    /\ save_task = "running"
    /\ initialized = TRUE
    /\ \E tracked \in BOOLEAN, last_content \in PolicyContents :
          document_states =
              IF tracked
              THEN [d \in {PolicyDoc} |-> [last_save |-> 0, last_content |-> last_content]]
              ELSE <<>>
    /\ worker_pc = "operation"
    /\ \E content \in PolicyContents, u \in Users :
          current = Request(PolicyDoc, u, content, NoOperation, 1)
    /\ shutdown_pc = "idle"
    /\ clock \in PolicyClocks
    /\ submitted = 1
    /\ calls = 0
    /\ listed = <<>>
    /\ next_id = 1
    /\ cleanup = NoCleanup
    /\ worker_tasks = 1
    /\ reads = NoReads
    /\ last_submitted = <<>>
    /\ event = NoEvent

\* One call of _should_save_document(document_id, content) for the request
\* at hand; the event holds the branch that decided and the value returned.
should_save_document_call ==
    /\ event' = Event("policy", current.document_id, 0,
                      SaveTrigger(document_states, current.document_id,
                                  current.content, clock),
                      IF _should_save_document(document_states, current.document_id,
                                               current.content, clock)
                      THEN "save" ELSE "skip")
    /\ UNCHANGED <<docs, versions, operations, save_queue, save_task, initialized,
                   document_states, worker_pc, current, shutdown_pc, clock, submitted,
                   calls, listed, baseline, reads, last_submitted, next_id, cleanup, worker_tasks>>

NextPolicy == should_save_document_call

SpecPolicy == InitPolicy /\ [][NextPolicy]_vars

-----------------------------------------------------------------------------
\* The life of the worker task: save requests, the worker, and shutdown.  The
\* event loop runs a task that is ready, so the worker takes its next step
\* whenever it has one, and a shutdown() caller resumes once the task it
\* awaits is done.

LifePayloads == {NoOperation, InsertOperation}
LifeContents == {abc, abcd}

WorkerRuns ==
    \/ \E fails \in BOOLEAN : WorkerSave(fails)
    \/ \E fails \in BOOLEAN : WorkerOperation(fails)
    \/ WorkerStop

NextLife ==
    \/ \E d \in DocIds, u \in Users, c \in LifeContents, o \in LifePayloads :
           save_content(d, u, c, o)
    \/ \E fails \in BOOLEAN : WorkerSave(fails)
    \/ \E fails \in BOOLEAN : WorkerOperation(fails)
    \/ WorkerStop
    \/ shutdown
    \/ shutdown_return
    \/ Tick

SpecLife ==
    Init /\ [][NextLife]_vars /\ WF_vars(WorkerRuns) /\ WF_vars(shutdown_return)

-----------------------------------------------------------------------------
\* The save pipeline with a store that never fails: save requests and the
\* worker, whose store calls all succeed.

NextDrain ==
    \/ \E d \in DocIds, u \in Users, c \in Contents : save_content(d, u, c, NoOperation)
    \/ WorkerSave(FALSE)
    \/ WorkerOperation(FALSE)
    \/ Tick

SpecDrain == Init /\ [][NextDrain]_vars

-----------------------------------------------------------------------------
\* A flush and a restore of one document racing at their store calls.  The
\* document has been flushed once: it is at version InitialVersion + 1 and
\* the row numbered InitialVersion holds its first content.

RaceDoc == CHOOSE d \in DocIds : \A e \in DocIds : d <= e

InitRace ==
    /\ docs = [d \in {RaceDoc} |->
                 [content |-> abcd, version |-> InitialVersion + 1,
                  last_editor_id |-> CHOOSE u \in Users : TRUE]]
    /\ baseline = [d \in {RaceDoc} |-> InitialVersion]
    /\ versions = <<[document_id |-> RaceDoc, version_number |-> InitialVersion,
                     content |-> abc]>>
    /\ operations = <<>>
    /\ save_queue = <<>>
    /\ save_task = "none"
    /\ initialized = FALSE
    /\ document_states = <<>>
    /\ worker_pc = "get"
    /\ current = StopSignal
    /\ shutdown_pc = "idle"
    /\ clock = 0
    /\ submitted = 0
    /\ calls = 0
    /\ listed = <<>>
    /\ next_id = 1
    /\ cleanup = NoCleanup
    /\ worker_tasks = 0
    /\ reads = NoReads
    /\ last_submitted = <<>>
    /\ event = NoEvent

NextRace ==
    \/ \E d \in DocIds, u \in Users, c \in LifeContents :
           save_content(d, u, c, NoOperation)
    \/ \E fails \in BOOLEAN : ~FlushWrites /\ WorkerSave(fails)
    \/ flush_read
    \/ \E fails \in BOOLEAN : flush_commit(fails)
    \/ \E fails \in BOOLEAN : WorkerOperation(fails)
    \/ \E d \in DocIds, v \in VersionNumbers, u \in Users, fails \in BOOLEAN :
           restore_read(d, v, u, fails)
    \/ \E fails \in BOOLEAN : restore_commit(fails)
    \/ Tick

SpecRace == InitRace /\ [][NextRace]_vars

-----------------------------------------------------------------------------
\* The whole service: every entry point, the worker and shutdown, over a span
\* shorter than the save interval.

ServiceContents == {abcd}

NextService ==
    \/ \E d \in DocIds, u \in Users, c \in ServiceContents :
           save_content(d, u, c, InsertOperation)
    \/ \E fails \in BOOLEAN : WorkerSave(fails)
    \/ \E fails \in BOOLEAN : WorkerOperation(fails)
    \/ WorkerStop
    \/ shutdown
    \/ shutdown_return
    \/ \E d \in DocIds, u \in Users, fails \in BOOLEAN : create_version_snapshot(d, u, fails)
    \/ \E d \in DocIds, v \in VersionNumbers, u \in Users, fails \in BOOLEAN :
           restore_version(d, v, u, fails)
    \/ \E d \in DocIds, k \in KeepCounts, fails \in BOOLEAN :
           cleanup_old_operations(d, k, fails)
    \/ \E fails \in BOOLEAN : cleanup_old_operations_commit(fails)

SpecService == Init /\ [][NextService]_vars

-----------------------------------------------------------------------------
\* The operation log: save requests that carry an operation, the worker, and
\* cleanup_old_operations.  Both documents are in the store.

OperationContents == {abc}

InitOps ==
    /\ docs = [d \in DocIds |->
                 [content |-> abc, version |-> InitialVersion, last_editor_id |-> NoUser]]
    /\ baseline = [d \in DocIds |-> InitialVersion]
    /\ versions = <<>>
    /\ operations = <<>>
    /\ save_queue = <<>>
    /\ save_task = "none"
    /\ initialized = FALSE
    /\ document_states = <<>>
    /\ worker_pc = "get"
    /\ current = StopSignal
    /\ shutdown_pc = "idle"
    /\ clock = 0
    /\ submitted = 0
    /\ calls = 0
    /\ listed = <<>>
    /\ next_id = 1
    /\ cleanup = NoCleanup
    /\ worker_tasks = 0
    /\ reads = NoReads
    /\ last_submitted = <<>>
    /\ event = NoEvent

NextOps ==
    \/ \E d \in DocIds, u \in Users, c \in OperationContents, o \in OperationPayloads :
           save_content(d, u, c, o)
    \/ \E fails \in BOOLEAN : WorkerSave(fails)
    \/ \E fails \in BOOLEAN : WorkerOperation(fails)
    \/ \E d \in DocIds, k \in KeepCounts, fails \in BOOLEAN :
           cleanup_old_operations(d, k, fails)
    \/ \E fails \in BOOLEAN : cleanup_old_operations_commit(fails)
    \/ Tick

SpecOps == InitOps /\ [][NextOps]_vars
-----------------------------------------------------------------------------
\* Properties.

\* The version numbers of a document's rows, in insertion order.
NumbersOf(rows, document_id) ==
    LET mine == RowsOf(rows, document_id)
    IN  [i \in 1..Len(mine) |-> mine[i].version_number]

StrictlyIncreasing(numbers) ==
    \A i, j \in 1..Len(numbers) : i < j => numbers[i] < numbers[j]

NonDecreasing(numbers) ==
    \A i, j \in 1..Len(numbers) : i < j => numbers[i] <= numbers[j]

\* Every number the counter of the document has left is on some row.
GapFree(numbers, store, document_id) ==
    \A n \in baseline[document_id]..(store[document_id].version - 1) :
        \E i \in 1..Len(numbers) : numbers[i] = n

\* The numbers on the rows of the document never decrease and cover every
\* number its counter has left.
ChainCovers(rows, store, document_id) ==
    LET numbers == NumbersOf(rows, document_id)
    IN  NonDecreasing(numbers) /\ GapFree(numbers, store, document_id)

\* The rows of the document carry exactly the numbers its counter has left,
\* each once, in increasing order.
ExactChain(rows, store, document_id) ==
    NumbersOf(rows, document_id) =
        [i \in 1..(store[document_id].version - baseline[document_id]) |->
            baseline[document_id] + i - 1]

\* A step of the worker that ran the policy (and, if it said save, the flush).
SaveStep == event'.op = "save"

\* C1 (Spec): a flush that succeeds on a document at version n with content c
\* appends the version row {n, c} and, in the same step, stores the submitted
\* content and moves the version to n + 1; a worker step that does not succeed
\* in flushing changes neither the document rows nor the version rows.
C1_SnapshotBeforeOverwrite ==
    [][SaveStep =>
        LET d == event'.document_id
            request == Head(save_queue)
        IN  IF event'.outcome = "saved"
            THEN /\ d \in DOMAIN docs
                 /\ versions' = Append(versions,
                        [document_id |-> d, version_number |-> docs[d].version,
                         content |-> docs[d].content])
                 /\ docs'[d].content = request.content
                 /\ docs'[d].version = docs[d].version + 1
                 /\ \A e \in DOMAIN docs \ {d} : docs'[e] = docs[e]
            ELSE docs' = docs /\ versions' = versions]_vars

\* Witness of C1: the flush of "abcd." onto document 1 at its initial version
\* archived {InitialVersion, "abc"} and moved the document on by one.
C1_Witness ==
    /\ event.op = "save" /\ event.outcome = "saved" /\ event.document_id = 1
    /\ docs[1].content = abcdDot
    /\ docs[1].version = InitialVersion + 1
    /\ versions = <<[document_id |-> 1, version_number |-> InitialVersion, content |-> abc]>>

\* C2, as claimed (Spec): after any flushes, manual snapshots and restores the
\* version numbers of a document's rows, in insertion order, are strictly
\* increasing and gap-free.
C2_Claimed ==
    \A d \in DOMAIN docs :
        /\ StrictlyIncreasing(NumbersOf(versions, d))
        /\ GapFree(NumbersOf(versions, d), docs, d)

\* C2, amended (Spec): the version numbers of a document's rows, in insertion
\* order, never decrease and cover every number the counter has left; as long
\* as no manual snapshot is taken they are exactly the numbers the counter has
\* left, each once, in increasing order (flushes and restores keep the chain
\* exact; only a manual snapshot puts a number on a second row).  Stated for
\* the initial state and for every step that changes a document or a version
\* row.
C2_VersionChain ==
    /\ \A d \in DOMAIN docs : ChainCovers(versions, docs, d)
    /\ [][(versions' # versions \/ docs' # docs) =>
            \A d \in DOMAIN docs' :
                /\ ChainCovers(versions', docs', d)
                /\ (event'.op # "snapshot" /\ ExactChain(versions, docs, d))
                      => /\ ExactChain(versions', docs', d)
                         /\ StrictlyIncreasing(NumbersOf(versions', d))]_vars

\* Witness of C2: a flush and then a restore left two rows, numbered
\* InitialVersion and InitialVersion + 1, and the counter two further on.
C2_Witness ==
    /\ event.op = "restore" /\ event.outcome = "restored"
    /\ NumbersOf(versions, 1) = <<InitialVersion, InitialVersion + 1>>
    /\ docs[1].version = InitialVersion + 2

Min(a, b) == IF a <= b THEN a ELSE b

\* C3, as claimed (SpecChain): after N successful flushes of a document that
\* started at version `initial` with no rows, get_document_versions returns
\* exactly N rows numbered initial+N-1 down to initial, and the document is at
\* version initial+N.
C3_Claimed ==
    LET N == submitted
        initial == baseline[ChainDoc]
    IN  /\ Len(listed) = N
        /\ \A i \in 1..Len(listed) : listed[i].version_number = initial + N - i
        /\ docs[ChainDoc].version = initial + N

\* C3, amended (SpecChain): after N successful flushes get_document_versions,
\* with its default limit of 10, returns the min(N, 10) newest rows, numbered
\* initial+N-1 downwards, and the document is at version initial+N.
C3_VersionChainRoundTrip ==
    LET N == submitted
        initial == baseline[ChainDoc]
    IN  /\ Len(listed) = Min(N, DefaultVersionLimit)
        /\ \A i \in 1..Len(listed) :
              /\ listed[i].version_number = initial + N - i
              /\ listed[i].document_id = ChainDoc
        /\ Len(RowsOf(versions, ChainDoc)) = N
        /\ docs[ChainDoc].version = initial + N

\* Witness of C3: one flush more than the default limit, and a listing of
\* exactly the limit.
C3_Witness ==
    /\ event.op = "save" /\ event.outcome = "saved"
    /\ submitted = DefaultVersionLimit + 1
    /\ Len(listed) = DefaultVersionLimit
    /\ listed[1].version_number = baseline[ChainDoc] + DefaultVersionLimit

RestoreStep == event'.op = "restore"

\* C4 (Spec): a restore_version(document, v) that succeeds moves the version
\* of the document up by exactly 1, and the version it reaches is not v.
C4_RestoreAdvances ==
    [][(RestoreStep /\ event'.outcome = "restored") =>
        LET d == event'.document_id
        IN  /\ docs'[d].version = docs[d].version + 1
            /\ docs'[d].version > docs[d].version
            /\ docs'[d].version # event'.version_number]_vars

\* Witness of C4: the document was restored to the version number it was at
\* (a manual snapshot had archived it) and is now one past it.
C4_Witness ==
    /\ event.op = "restore" /\ event.outcome = "restored"
    /\ event.version_number = InitialVersion
    /\ docs[event.document_id].version = InitialVersion + 1

\* C5 (Spec): after a restore_version(document, v) that succeeds the live
\* content is the content of the version row numbered v, and a version row
\* carrying the pre-restore version number holds the pre-restore content.
C5_RestoreKeepsBoth ==
    [][(RestoreStep /\ event'.outcome = "restored") =>
        LET d == event'.document_id
            v == event'.version_number
        IN  /\ MatchingVersions(versions, d, v) # {}
            /\ \A i \in MatchingVersions(versions, d, v) :
                   docs'[d].content = versions[i].content
            /\ \E i \in 1..Len(versions') :
                   versions'[i] = [document_id |-> d, version_number |-> docs[d].version,
                                   content |-> docs[d].content]
            /\ \A i \in 1..Len(versions) : versions'[i] = versions[i]]_vars

\* Witness of C5: "abcd" had replaced "abc"; the restore of the first version
\* brought "abc" back and archived "abcd" under the number it was live at.
C5_Witness ==
    /\ event.op = "restore" /\ event.outcome = "restored"
    /\ docs[1].content = abc
    /\ versions = <<[document_id |-> 1, version_number |-> InitialVersion, content |-> abc],
                    [document_id |-> 1, version_number |-> InitialVersion + 1,
                     content |-> abcd]>>

\* C6, as claimed (Spec): restore_version returns false and changes nothing
\* when the version row or the document is absent, and returns true when the
\* document exists and a version row numbered v exists for it (a step whose
\* store call itself failed is left out of the claim here).
C6_Claimed ==
    [][(RestoreStep /\ event'.outcome # "failed") =>
        LET d == event'.document_id
            v == event'.version_number
            present == d \in DOMAIN docs /\ MatchingVersions(versions, d, v) # {}
        IN  IF present
            THEN event'.outcome = "restored"
            ELSE /\ event'.outcome # "restored"
                 /\ docs' = docs
                 /\ versions' = versions]_vars

\* C7, as claimed (Spec): the first save request the worker processes for a
\* document without a tracker entry always flushes: the stored content becomes
\* the submitted content, the prior content is archived, the version advances.
C7_Claimed ==
    [][(SaveStep /\ event'.document_id \notin DOMAIN document_states) =>
        LET d == event'.document_id
        IN  /\ event'.outcome = "saved"
            /\ docs'[d].content = Head(save_queue).content
            /\ docs'[d].version = docs[d].version + 1
            /\ Len(versions') = Len(versions) + 1]_vars

\* C7, amended (Spec): for a document without a tracker entry the policy
\* approves the first save request the worker processes; the flush writes
\* (content stored, prior content archived, version advanced) when the document
\* exists, its stored content differs from the submitted content and the store
\* call does not fail, and otherwise leaves the store as it was.
C7_FirstSaveApproved ==
    [][(SaveStep /\ event'.document_id \notin DOMAIN document_states) =>
        LET d == event'.document_id
            request == Head(save_queue)
            writes == /\ d \in DOMAIN docs
                      /\ docs[d].content # request.content
                      /\ event'.outcome # "failed"
        IN  /\ event'.outcome # "skipped"
            /\ event'.trigger = "new"
            /\ IF writes
               THEN /\ event'.outcome = "saved"
                    /\ docs'[d].content = request.content
                    /\ docs'[d].version = docs[d].version + 1
                    /\ versions' = Append(versions,
                           [document_id |-> d, version_number |-> docs[d].version,
                            content |-> docs[d].content])
               ELSE /\ event'.outcome # "saved"
                    /\ docs' = docs
                    /\ versions' = versions]_vars

\* Witness of C7: the first request for document 1 was approved as new and
\* flushed.
C7_Witness ==
    /\ event.op = "save" /\ event.trigger = "new" /\ event.outcome = "saved"
    /\ event.document_id = 1
    /\ docs[1].version = InitialVersion + 1
    /\ Len(versions) = 1

\* C8 (Spec): when the policy approves a save and the incoming content equals
\* the stored content, the worker does not flush: no version row is added and
\* the document row (content, version, last editor) stays as it was.
C8_DuplicateSuppressed ==
    [][(/\ SaveStep
        /\ event'.document_id \in DOMAIN docs
        /\ _should_save_document(document_states, event'.document_id,
                                 Head(save_queue).content, clock)
        /\ Head(save_queue).content = docs[event'.document_id].content) =>
        /\ event'.outcome \in {"unchanged", "failed"}
        /\ versions' = versions
        /\ docs' = docs]_vars

\* Witness of C8: a save interval after the last save the policy approved a
\* request whose content was already stored, and the worker skipped the write.
C8_Witness ==
    /\ event.op = "save" /\ event.trigger = "interval" /\ event.outcome = "unchanged"
    /\ event.document_id = 1
    /\ docs[1].last_editor_id = NoUser
    /\ docs[1].version = InitialVersion
    /\ versions = <<>>

\* C9 (Spec): a request for a document that has a tracker entry, arrives less
\* than saveInterval after the last save, changes the length by less than
\* minContentChangeChars and appends no suffix ending in a sentence terminator
\* is skipped: document content, version and version rows stay as they were.
C9_SkipLeavesStore ==
    [][(/\ SaveStep
        /\ event'.document_id \in DOMAIN document_states
        /\ LET state == document_states[event'.document_id]
               content == Head(save_queue).content
               suffix == SubSeq(content, Len(state.last_content) + 1, Len(content))
           IN  /\ clock - state.last_save < save_interval
               /\ Abs(Len(content) - Len(state.last_content)) < min_content_change
               /\ \/ Len(content) <= Len(state.last_content)
                  \/ rstrip(suffix) = <<>>
                  \/ rstrip(suffix)[Len(rstrip(suffix))] \notin sentence_endings) =>
        /\ event'.outcome = "skipped"
        /\ docs' = docs
        /\ versions' = versions]_vars

\* Witness of C9: document 1 has a tracker entry, the request appended "d" to
\* "abc" and was skipped; the document is still "abc" at its initial version.
C9_Witness ==
    /\ event.op = "save" /\ event.outcome = "skipped" /\ event.document_id = 1
    /\ current.content = abcd
    /\ document_states[1].last_content = abc
    /\ docs[1].content = abc
    /\ docs[1].version = InitialVersion
    /\ versions = <<>>

OperationStep == event'.op = "operation"

\* C10, as claimed (SpecWorker): for every dequeued request that carries an
\* operation payload exactly one operation row is appended.
C10_Claimed ==
    [][(OperationStep /\ current.operation.kind = "dict") =>
        Len(operations') = Len(operations) + 1]_vars

\* C10, amended (SpecWorker): every dequeued request, whatever the policy
\* decided and whatever the flush did, reaches the operation step; there a
\* request with a non-empty payload gets exactly one operation row when the
\* store call of the append succeeds, and no row is added when that call fails
\* or the payload is None or the empty dict.
C10_OperationPerRequest ==
    [][/\ SaveStep =>
            /\ worker_pc' = "operation"
            /\ current' = Head(save_queue)
            /\ operations' = operations
       /\ OperationStep =>
            /\ worker_pc = "operation"
            /\ IF /\ current.operation.kind = "dict"
                  /\ current.operation.size > 0
                  /\ event'.outcome # "failed"
               THEN /\ Len(operations') = Len(operations) + 1
                    /\ SubSeq(operations', 1, Len(operations)) = operations
                    /\ operations'[Len(operations')].document_id = current.document_id
                    /\ operations'[Len(operations')].user_id = current.user_id
                    /\ operations'[Len(operations')].content = current.operation.content
               ELSE operations' = operations]_vars

\* Witness of C10: two requests for document 1 were processed without a write
\* (the first a duplicate, the second skipped by the policy) and the operation
\* of each was appended all the same.
C10_Witness ==
    /\ event.op = "operation" /\ event.outcome = "appended" /\ event.document_id = 1
    /\ clock = 0 /\ submitted = 2 /\ save_queue = <<>>
    /\ 1 \in DOMAIN document_states
    /\ docs[1].content = abc /\ docs[1].version = InitialVersion
    /\ Len(operations) = 2
    /\ \A i \in 1..Len(operations) : operations[i].document_id = 1

-----------------------------------------------------------------------------
\* The operation log and its cleanup.

\* A step of cleanup_old_operations.
CleanupStep == event'.op = "cleanup"

\* The row is among the rows.
Among(row, rows) == \E i \in 1..Len(rows) : rows[i] = row

\* C11 (SpecOps): when cleanup_old_operations(document, K) finds M > K rows of
\* the document and no row of the document is appended before it commits,
\* the commit leaves exactly K of those rows, none of them created earlier
\* than a row it deleted, and leaves the rows of every other document as they
\* were.  With M <= K rows the call deletes nothing, and a call whose store
\* call fails deletes nothing.
C11_CleanupKeepsNewest ==
    [][CleanupStep =>
        LET d == event'.document_id
            before == RowsOf(operations, d)
            after == RowsOf(operations', d)
        IN  /\ (event'.outcome = "deleted"
                  /\ \A i \in 1..Len(before) : before[i].id < cleanup.seen)
               => /\ Len(before) > cleanup.keep_count
                  /\ Len(after) = cleanup.keep_count
                  /\ \A i \in 1..Len(after) : Among(after[i], before)
                  /\ \A i \in 1..Len(before), j \in 1..Len(after) :
                        ~Among(before[i], after)
                            => before[i].created_at <= after[j].created_at
                  /\ \A e \in DocIds \ {d} :
                        RowsOf(operations', e) = RowsOf(operations, e)
            /\ event'.outcome = "nothing"
               => Len(before) <= event'.version_number /\ operations' = operations
            /\ event'.outcome = "selected"
               => Len(before) > event'.version_number /\ operations' = operations
            /\ event'.outcome = "failed" => operations' = operations]_vars

\* Two rows of a document, created at different times, were cleaned up with
\* keep_count 1: the later one is left.
C11_Witness ==
    /\ event.op = "cleanup"
    /\ event.outcome = "deleted"
    /\ event.version_number = 1
    /\ next_id = 3
    /\ Len(operations) = 1
    /\ operations[1].id = 2
    /\ operations[1].created_at = save_interval
    /\ operations[1].document_id = event.document_id

-----------------------------------------------------------------------------
\* The queue and the worker.

\* The number of requests the worker has taken from the queue so far.
Dequeued == submitted - Len(SelectSeq(save_queue, LAMBDA item : ~item.stop))

\* C12 (SpecWorker): the queue holds the requests in the order of their
\* save_content calls; the worker takes a request only when the request
\* before it has finished its policy evaluation, flush and operation append,
\* and the request it takes is the earliest one not yet taken; the operation
\* append that follows belongs to that same request.
C12_FifoOneAtATime ==
    /\ [](\A i, j \in 1..Len(save_queue) : i < j => save_queue[i].seq < save_queue[j].seq)
    /\ [](worker_pc = "operation"
            => /\ ~current.stop
               /\ \A i \in 1..Len(save_queue) : current.seq < save_queue[i].seq)
    /\ [][SaveStep =>
            /\ worker_pc = "get"
            /\ current = StopSignal
            /\ current'.seq = Dequeued + 1
            /\ \A i \in 1..Len(save_queue') : current'.seq < save_queue'[i].seq
            /\ event'.document_id = current'.document_id]_vars
    /\ [][OperationStep =>
            /\ worker_pc = "operation"
            /\ current.seq = Dequeued
            /\ event'.document_id = current.document_id
            /\ save_queue' = save_queue]_vars

\* Two requests for one document were submitted; the first has been through
\* its flush and its operation append, the second is between the two.
C12_Witness ==
    /\ submitted = 2
    /\ worker_pc = "operation"
    /\ current.seq = 2
    /\ save_queue = <<>>
    /\ Len(operations) = 1
    /\ operations[1].document_id = current.document_id
    /\ current.document_id \in DOMAIN document_states

\* The real requests waiting in the queue.
Waiting(queue) == SelectSeq(queue, LAMBDA item : ~item.stop)

\* C13 (SpecLife): the worker takes the stop signal only when every request
\* put before it has been taken and has finished its flush and its operation
\* append, and then ends; a shutdown() call returns only when no worker task
\* is running; and once shutdown() has put the stop signal the worker task
\* ends and the call returns.
C13_GracefulShutdown ==
    /\ [][event'.op = "stop" =>
            LET signal == Head(save_queue)
            IN  /\ worker_pc = "get"
                /\ current = StopSignal
                /\ Len(Waiting(save_queue')) = submitted - signal.seq
                /\ \A i \in 1..Len(save_queue') :
                      ~save_queue'[i].stop => save_queue'[i].seq > signal.seq
                /\ save_task' = "done"
                /\ worker_tasks' = 0]_vars
    /\ [][(shutdown_pc # "returned" /\ shutdown_pc' = "returned") =>
            /\ save_task' # "running"
            /\ worker_tasks' = 0]_vars
    /\ [](shutdown_pc = "waiting" => save_task # "none")
    /\ (shutdown_pc = "waiting") ~> (save_task = "done")
    /\ (shutdown_pc = "waiting") ~> (shutdown_pc = "returned")

\* shutdown() was called with two requests in the queue; both were flushed
\* and had their operations appended, the worker has ended and the call has
\* returned.
C13_Witness ==
    /\ shutdown_pc = "returned"
    /\ event.op = "shutdown"
    /\ event.outcome = "returned"
    /\ save_task = "done"
    /\ submitted = 2
    /\ save_queue = <<>>
    /\ Len(operations) = 2
    /\ DOMAIN document_states = DocIds

\* Request number k is in the queue with no stop signal ahead of it.
Queued(k) ==
    \E i \in 1..Len(save_queue) :
        /\ ~save_queue[i].stop
        /\ save_queue[i].seq = k
        /\ \A j \in 1..(i - 1) : ~save_queue[j].stop

\* C14 (SpecLife): a flush that fails in the store or finds no document
\* leaves the worker task running, takes the request off the queue, goes on
\* to the operation append of the same request, and leaves the tracker entry
\* of every other document as it was; and while the worker task runs, every
\* request that is in the queue with no stop signal ahead of it is eventually
\* taken by the worker.
C14_FailureIsolation ==
    /\ [][(SaveStep /\ event'.outcome \in {"failed", "missing"}) =>
            LET d == event'.document_id
            IN  /\ save_task' = "running"
                /\ worker_tasks' = worker_tasks
                /\ worker_pc' = "operation"
                /\ save_queue' = Tail(save_queue)
                /\ docs' = docs
                /\ versions' = versions
                /\ DOMAIN document_states' \ {d} = DOMAIN document_states \ {d}
                /\ \A e \in DOMAIN document_states \ {d} :
                      document_states'[e] = document_states[e]]_vars
    /\ \A k \in 1..MaxSubmits :
          (save_task = "running" /\ Queued(k)) ~> (Dequeued >= k)

\* The first request was for the document that is not in the store; the
\* second, for the other document, has been flushed after it.
C14_Witness ==
    /\ submitted = 2
    /\ event.op = "save"
    /\ event.outcome = "saved"
    /\ current.seq = 2
    /\ event.document_id \in DOMAIN docs
    /\ \E d \in DocIds \ DOMAIN docs : d \in DOMAIN document_states
    /\ save_task = "running"

\* C15 (Spec), as claimed: the worker changes the tracker only in a step whose
\* flush wrote the document; a step whose flush was skipped by the policy,
\* suppressed as a duplicate, found no document or failed in the store leaves
\* the tracker as it was.
C15_Claimed ==
    [][SaveStep =>
        /\ event'.outcome \in {"skipped", "unchanged", "missing", "failed"}
              => document_states' = document_states
        /\ event'.outcome = "saved"
              => document_states' =
                    _update_document_state(document_states, event'.document_id,
                                           current'.content, clock)]_vars

-----------------------------------------------------------------------------
\* Manual snapshots.

\* A step of create_version_snapshot.
SnapshotStep == event'.op = "snapshot"

\* C16 (Spec): create_version_snapshot on a document that is in the store
\* appends exactly one version row, holding the document's current content
\* and tagged with its current version number, unless the store call fails;
\* on an absent document, or when the store call fails, it adds no row; in
\* every case the document rows (content, version, last editor) stay as they
\* were.
C16_SnapshotFrame ==
    [][SnapshotStep =>
        LET d == event'.document_id
        IN  /\ docs' = docs
            /\ event'.outcome \in {"created", "missing", "failed"}
            /\ d \notin DOMAIN docs => (event'.outcome # "created" /\ versions' = versions)
            /\ event'.outcome = "missing" <=> (d \notin DOMAIN docs /\ event'.outcome # "failed")
            /\ event'.outcome = "failed" => versions' = versions
            /\ event'.outcome = "created"
                  => /\ Len(versions') = Len(versions) + 1
                     /\ SubSeq(versions', 1, Len(versions)) = versions
                     /\ versions'[Len(versions')].document_id = d
                     /\ versions'[Len(versions')].content = docs[d].content
                     /\ versions'[Len(versions')].version_number = docs[d].version]_vars

\* A snapshot was taken of a document the worker had flushed before: the row
\* carries the flushed content and the advanced version, the document is at
\* that version still.
C16_Witness ==
    /\ event.op = "snapshot"
    /\ event.outcome = "created"
    /\ Len(versions) = 2
    /\ docs[event.document_id].version = InitialVersion + 1
    /\ versions[2].version_number = InitialVersion + 1
    /\ versions[2].content = docs[event.document_id].content
    /\ versions[2].content # abc

-----------------------------------------------------------------------------
\* The single consumer.

\* C17 (SpecService): at most one worker task exists at any time, and it is
\* the one self.save_task refers to, whatever the order of the save_content
\* calls, the worker steps and shutdown; and the tracker changes only in a
\* step of the worker, never in a step of save_content, restore_version,
\* create_version_snapshot, cleanup_old_operations or shutdown.
C17_SingleConsumer ==
    /\ [](worker_tasks <= 1)
    /\ [](worker_tasks = IF save_task = "running" THEN 1 ELSE 0)
    /\ [][document_states' # document_states => SaveStep]_vars
    /\ [][event'.op \in {"save_content", "restore", "snapshot", "cleanup", "shutdown", "stop"}
            => document_states' = document_states]_vars

\* Two save_content calls were made before the worker took its first step:
\* one worker task runs, both requests wait, the tracker is empty.
C17_Witness ==
    /\ submitted = 2
    /\ Len(save_queue) = 2
    /\ event.op = "save_content"
    /\ save_task = "running"
    /\ worker_tasks = 1
    /\ worker_pc = "get"
    /\ document_states = <<>>

-----------------------------------------------------------------------------
\* Cleanup while the worker appends.

\* The rows of the document of the call under way that were in the store when
\* its id query ran.
SeenRows == SelectSeq(RowsOf(operations, cleanup.document_id),
                      LAMBDA row : row.id < cleanup.seen)

\* C18 (SpecOps): between its id query and its commit, the ids a cleanup call
\* holds are those of rows that were in the store at the query and were not
\* among the keep_count most recently created then; the commit deletes rows
\* with those ids only, none that was appended after the query, adds none,
\* and leaves the document with keep_count rows plus the rows appended to it
\* during the call (so at least keep_count and at most keep_count plus the
\* appended ones).
C18_CleanupWithAppends ==
    /\ [](cleanup.pc = "delete" =>
            LET seen == SeenRows
                chosen == {i \in 1..Len(seen) : seen[i].id \in cleanup.ids}
                kept == (1..Len(seen)) \ chosen
            IN  /\ cleanup.ids = {seen[i].id : i \in chosen}
                /\ Cardinality(chosen) = Cardinality(cleanup.ids)
                /\ Cardinality(kept) = cleanup.keep_count
                /\ Len(seen) > cleanup.keep_count
                /\ \A i \in chosen, j \in kept : seen[i].created_at <= seen[j].created_at)
    /\ [][(cleanup.pc = "delete" /\ cleanup'.pc = "delete") => cleanup' = cleanup]_vars
    /\ [][(CleanupStep /\ event'.outcome = "deleted") =>
            LET d == cleanup.document_id
                appended == Len(RowsOf(operations, d)) - Len(SeenRows)
                after == Len(RowsOf(operations', d))
            IN  /\ \A i \in 1..Len(operations) :
                      ~Among(operations[i], operations')
                         => /\ operations[i].id \in cleanup.ids
                            /\ operations[i].id < cleanup.seen
                            /\ operations[i].document_id = d
                /\ \A i \in 1..Len(operations') : Among(operations'[i], operations)
                /\ after = cleanup.keep_count + appended
                /\ after >= cleanup.keep_count
                /\ after <= cleanup.keep_count + appended]_vars

\* A cleanup with keep_count 0 selected the one row of the document; the
\* worker appended a second row before the commit; that row is left.
C18_Witness ==
    /\ event.op = "cleanup"
    /\ event.outcome = "deleted"
    /\ event.version_number = 0
    /\ next_id = 3
    /\ Len(operations) = 1
    /\ operations[1].id = 2
    /\ operations[1].document_id = event.document_id

-----------------------------------------------------------------------------
\* The save policy as a decision table.

\* The last character of the text that is not whitespace is a sentence
\* terminator.
EndsSentence(text) ==
    \E i \in 1..Len(text) :
        /\ text[i] \notin Whitespace
        /\ text[i] \in sentence_endings
        /\ \A j \in (i + 1)..Len(text) : text[j] \in Whitespace

\* The ordered table: no tracker entry; else the interval has elapsed; else
\* the content differs and either the length moved by min_content_change or
\* more, or the content grew and the appended text ends a sentence.
DecisionTable(states, document_id, content, now) ==
    \/ document_id \notin DOMAIN states
    \/ /\ document_id \in DOMAIN states
       /\ LET last_save == states[document_id].last_save
              last_content == states[document_id].last_content
              longer == Len(content) - Len(last_content)
          IN  \/ now - last_save >= save_interval
              \/ /\ content # last_content
                 /\ \/ longer >= min_content_change
                    \/ -longer >= min_content_change
                    \/ /\ longer > 0
                       /\ EndsSentence(SubSeq(content, Len(last_content) + 1,
                                              Len(content)))

\* C19 (SpecPolicy): _should_save_document returns what the ordered decision
\* table gives for the tracker entry, the incoming content and the time, and
\* the call changes neither the tracker nor the store.
C19_PolicyTable ==
    [][event'.op = "policy" =>
        /\ (event'.outcome = "save")
              <=> DecisionTable(document_states, current.document_id,
                                current.content, clock)
        /\ event'.outcome \in {"save", "skip"}
        /\ document_states' = document_states
        /\ docs' = docs
        /\ versions' = versions
        /\ operations' = operations]_vars

\* Before the interval has elapsed, text that ends a sentence and then has
\* trailing whitespace was appended to the tracked content: the sentence rule
\* decided to save.
C19_Witness ==
    /\ event.op = "policy"
    /\ event.trigger = "sentence"
    /\ event.outcome = "save"
    /\ clock = save_interval - 1
    /\ current.content = abcdDot \o <<" ">>
    /\ document_states[current.document_id].last_content = abc

-----------------------------------------------------------------------------
\* The fields of an operation row.

\* C20 (SpecOps), as claimed: the row appended for a request has type DELETE
\* when the payload's type is "delete" and INSERT otherwise (also when the
\* payload has no type or a type that is neither), its start position is the
\* payload's position and its end position is the start position plus the
\* length of the payload's content.
C20_Claimed ==
    [][(OperationStep /\ event'.outcome = "appended") =>
        LET row == operations'[Len(operations')]
            payload == current.operation
        IN  /\ row.operation_type = IF payload.type = "delete" THEN "DELETE" ELSE "INSERT"
            /\ row.start_position = payload.position
            /\ row.end_position = row.start_position + Len(payload.content)]_vars

-----------------------------------------------------------------------------
\* Flush and restore racing at their store calls.

\* A step that committed a flush or a restore.
CommitStep ==
    \/ event'.op = "save" /\ event'.outcome = "saved"
    \/ event'.op = "restore" /\ event'.outcome = "restored"

\* C21 (SpecRace), as claimed: every committed flush or restore moves the
\* version of the document to one more than the committed version before it,
\* archives the content that was committed before it, and leaves no two
\* version rows of the document with the same number.
C21_Claimed ==
    [][CommitStep =>
        LET d == event'.document_id
        IN  /\ docs'[d].version = docs[d].version + 1
            /\ Len(versions') = Len(versions) + 1
            /\ versions'[Len(versions')].content = docs[d].content
            /\ versions'[Len(versions')].version_number = docs[d].version
            /\ \A i, j \in 1..Len(versions') :
                  (i # j /\ versions'[i].document_id = d /\ versions'[j].document_id = d)
                     => versions'[i].version_number # versions'[j].version_number]_vars

-----------------------------------------------------------------------------
\* The last edit.

\* C22 (SpecDrain), as claimed: with a store that never fails, whenever the
\* queue is empty and the worker is between requests, every document in the
\* store holds the content of the last save request submitted for it.
C22_Claimed ==
    (save_queue = <<>> /\ worker_pc = "get")
        => \A d \in DOMAIN last_submitted \cap DOMAIN docs :
              docs[d].content = last_submitted[d]

-----------------------------------------------------------------------------
\* Requests put when no worker runs.

\* C23 (SpecLife), as claimed: every save_content call leaves a worker task
\* running, also when the task had ended after a shutdown(), and every
\* request in the queue with no stop signal ahead of it is eventually taken.
C23_Claimed ==
    /\ [][event'.op = "save_content" => (save_task' = "running" /\ worker_tasks' = 1)]_vars
    /\ \A k \in 1..MaxSubmits : Queued(k) ~> (Dequeued >= k)

-----------------------------------------------------------------------------
\* The tracker and the store.

\* The document has no tracker entry, or is not in the store, or its tracker
\* entry holds the stored content.
Agree(states, store, d) ==
    (d \in DOMAIN states /\ d \in DOMAIN store)
        => states[d].last_content = store[d].content

\* C24 (Spec), as claimed: whenever the worker is between requests, the
\* tracker entry of every document holds the content stored for it.
C24_Claimed ==
    worker_pc = "get"
        => \A d \in DOMAIN document_states : Agree(document_states, docs, d)

\* The step is a flush of the document that failed in the store, or a restore
\* of the document that succeeded.
Diverging(d) ==
    /\ event'.document_id = d
    /\ \/ event'.op = "save" /\ event'.outcome = "failed"
       \/ event'.op = "restore" /\ event'.outcome = "restored"

\* C24 (Spec), amended: a flush that wrote the document or found its content
\* already stored leaves the tracker entry of the document equal to the
\* stored content; every step other than a failed flush of the document and a
\* successful restore of it keeps the two equal if they were; after a failed
\* flush the entry holds the content that was not written, and after a
\* restore it keeps the content from before the restore.
C24_AgreementKept ==
    [][\A d \in DocIds :
          /\ (SaveStep /\ event'.document_id = d
                /\ event'.outcome \in {"saved", "unchanged"})
                => /\ d \in DOMAIN document_states'
                   /\ d \in DOMAIN docs'
                   /\ document_states'[d].last_content = docs'[d].content
          /\ (Agree(document_states, docs, d) /\ ~Diverging(d))
                => Agree(document_states', docs', d)
          /\ (SaveStep /\ event'.document_id = d /\ event'.outcome = "failed")
                => /\ document_states'[d].last_content = current'.content
                   /\ docs' = docs
          /\ (event'.op = "restore" /\ event'.document_id = d)
                => document_states' = document_states]_vars

\* The worker has flushed a new content to the document, finished the
\* request, and a restore has then put the archived content back: the
\* tracker still holds the flushed content.
C24_Witness ==
    /\ worker_pc = "get"
    /\ event.op = "restore"
    /\ event.outcome = "restored"
    /\ event.document_id \in DOMAIN document_states
    /\ docs[event.document_id].version = InitialVersion + 2
    /\ docs[event.document_id].content = abc
    /\ document_states[event.document_id].last_content # abc

-----------------------------------------------------------------------------
\* The newline as a sentence terminator.

\* The text begins with the prefix.
StartsWith(text, prefix) ==
    Len(prefix) <= Len(text) /\ SubSeq(text, 1, Len(prefix)) = prefix

\* C25 (SpecPolicy), as claimed: before the save interval has elapsed, when
\* the incoming content is the tracked content followed by fewer than
\* min_content_change characters, the last of them a newline and none of the
\* others a sentence terminator, the policy returns save.
C25_Claimed ==
    [][(/\ event'.op = "policy"
        /\ current.document_id \in DOMAIN document_states
        /\ clock - document_states[current.document_id].last_save < save_interval
        /\ LET last_content == document_states[current.document_id].last_content
               content == current.content
               suffix == SubSeq(content, Len(last_content) + 1, Len(content))
           IN  /\ StartsWith(content, last_content)
               /\ Len(suffix) > 0
               /\ Len(suffix) < min_content_change
               /\ suffix[Len(suffix)] = "\n"
               /\ \A i \in 1..(Len(suffix) - 1) : suffix[i] \notin sentence_endings)
        => event'.outcome = "save"]_vars
====
